---- MODULE Spec2Model ----
(***************************************************************************)
(* Country refresh / reconciliation pipeline of src/server.js.             *)
(*                                                                         *)
(* The file holds two implementations of the same API: a MongoDB one      *)
(* (lines 1-452: batched bulkWrite, no transaction, fire-and-forget        *)
(* render) and a MySQL one (lines 454-877: one transaction per refresh,    *)
(* awaited render).  The variable `variant` says which one runs.           *)
(*                                                                         *)
(* Numbers: a nullable numeric column holds <<>> (null) or <<n, d>>, the   *)
(* rational n/d.  A JS double is taken as the exact quotient; a MySQL      *)
(* DECIMAL(30,2) column holds hundredths, rounded half up on write.        *)
(*                                                                         *)
(* Specifications: Spec (refreshes one at a time), SpecApi (the read and   *)
(* delete routes at any moment of a refresh), SpecBatch (the MongoDB       *)
(* handler with a list of more than one batch), SpecConc (two refreshes    *)
(* and deletes in flight together, bulkWrite taken operation by            *)
(* operation), SpecTimed (the wall clock advances between the steps of a   *)
(* refresh), SpecFile (the file write of the renderer step by step, with   *)
(* artifact reads in between).                                             *)
(***************************************************************************)
EXTENDS Integers, Sequences, FiniteSets, TLC

(***************************************************************************)
(* Bounds of the model.                                                    *)
(***************************************************************************)
MaxPayload == 2       \* longest fetched country list
MaxRefreshes == 2     \* refresh invocations per behaviour
MaxClock == 2         \* the wall clock stops advancing on its own here

(***************************************************************************)
(* JS / SQL values.                                                        *)
(***************************************************************************)
NULL == "null"                \* null in a string column
UNDEFINED == "undefined"      \* a property the object does not carry
NullNum == <<>>               \* null in a numeric column
Num(n, d) == <<n, d>>         \* the number n/d
IsNum(x) == Len(x) = 2
Zero == Num(0, 1)

\* a <= b, a < b on non-null numbers
NumLeq(a, b) == a[1] * b[2] <= b[1] * a[2]
NumLess(a, b) == a[1] * b[2] < b[1] * a[2]

(***************************************************************************)
(* Upstream source A: country entries.  A property the upstream leaves     *)
(* out is a field the record does not have.  Populations are scaled down   *)
(* from the spec's scenario (1000000) to keep products small.              *)
(***************************************************************************)
Testland ==
  [name |-> "Testland", capital |-> "Cap", region |-> "TestRegion",
   population |-> 7, flag |-> "http://x/flag.svg"]

SourceA ==
  { Testland @@ [currencies |-> <<[code |-> "TST"]>>],
    Testland @@ [currencies |-> <<>>],
    Testland @@ [currencies |-> <<[code |-> "ZZZ"], [code |-> "TST"]>>],
    [name |-> "testland", currencies |-> <<[code |-> "TST"]>>],
    [name |-> "Other", capital |-> "Oth", population |-> 3],
    [name |-> "Other", capital |-> "Oth", population |-> 3,
     currencies |-> <<[flag |-> "no code"]>>],
    [name |-> "Other", region |-> "TestRegion", population |-> 3,
     currencies |-> <<[code |-> "TST"]>>] }

\* String.prototype.toLowerCase / SQL LOWER() / the regex "i" flag, on the
\* names of the model
LOWER(s) ==
  IF s = "Testland" THEN "testland" ELSE IF s = "Other" THEN "other" ELSE s

\* the upstream lists its countries in alphabetical order
Alphabetical(a, b) == LOWER(a) = "other" /\ LOWER(b) = "testland"

\* the country lists the upstream can return
Payloads ==
  { s \in UNION { [1..n -> SourceA] : n \in 0..MaxPayload } :
      \A i, j \in DOMAIN s : i < j => Alphabetical(s[i].name, s[j].name) }

(***************************************************************************)
(* Upstream source B: rate tables, currency code -> positive rate.         *)
(***************************************************************************)
RateTables == { [TST |-> 10], [TST |-> 3] }

\* Math.random() * (2000 - 1000) + 1000 with Math.random() in [0, 1)
MultLow == 1000
MultHigh == 2000
Multipliers == { MultLow, MultHigh - 1 }

(***************************************************************************)
(* Reconciler: one fetched country -> the values both handlers bind.       *)
(* The MySQL handler repeats the MongoDB one line for line (646-669).      *)
(***************************************************************************)
Has(obj, prop) == prop \in DOMAIN obj

\* x || null on a string property
OrNull(obj, prop) == IF Has(obj, prop) THEN obj[prop] ELSE NULL

\* country.currencies && country.currencies.length > 0
HasCurrencies(country) ==
  Has(country, "currencies") /\ Len(country.currencies) > 0

\* country.currencies[0].code
FirstCode(country) ==
  IF Has(country.currencies[1], "code") THEN country.currencies[1].code
  ELSE UNDEFINED

\* currencyCode && exchangeRates[currencyCode]
RateFound(currencyCode, exchangeRates) ==
  /\ currencyCode \notin {UNDEFINED, NULL}
  /\ currencyCode \in DOMAIN exchangeRates
  /\ exchangeRates[currencyCode] # 0

GdpPlusOne(population, randomMultiplier, exchangeRate) ==
  Num(population * randomMultiplier + exchangeRate, exchangeRate)

\* (population * randomMultiplier) / exchangeRate
Gdp(population, randomMultiplier, exchangeRate) ==
  Num(population * randomMultiplier, exchangeRate)

NoCurrencyGdpNull == NullNum

\* } else { estimatedGdp = 0; }
NoCurrencyGdp == Zero

Reconcile(country, exchangeRates, randomMultiplier) ==
  LET population == IF Has(country, "population") THEN country.population ELSE 0
      currencyCode == IF HasCurrencies(country) THEN FirstCode(country) ELSE NULL
      found == HasCurrencies(country) /\ RateFound(currencyCode, exchangeRates)
  IN  [ name |-> country.name,
        capital |-> OrNull(country, "capital"),
        region |-> OrNull(country, "region"),
        population |-> population,
        currency_code |-> currencyCode,
        exchange_rate |->
          IF found THEN Num(exchangeRates[currencyCode], 1) ELSE NullNum,
        estimated_gdp |->
          IF ~HasCurrencies(country) THEN NoCurrencyGdp
          ELSE IF found
               THEN Gdp(population, randomMultiplier, exchangeRates[currencyCode])
               ELSE NullNum,
        flag_url |-> OrNull(country, "flag") ]

(***************************************************************************)
(* MongoDB variant: the countries collection.                              *)
(***************************************************************************)
batchSize == 50

\* What reaches the server for a $set key whose value is undefined: null
\* (the driver serialises undefined as null) or nothing at all (the ODM
\* strips the key, so an update keeps the old value).  Which one depends
\* on the installed mongoose, so the build decides: stripUndefined.
SetString(old, new, strip) ==
  IF new # UNDEFINED THEN new ELSE IF strip THEN old ELSE NULL

\* a $set that leaves out the keys whose value is null
MongoDocPartialSet(old, rec, date, strip) ==
  [ name |-> rec.name,
    capital |-> rec.capital,
    region |-> rec.region,
    population |-> rec.population,
    currency_code |-> SetString(old.currency_code, rec.currency_code, strip),
    exchange_rate |->
      IF rec.exchange_rate = NullNum THEN old.exchange_rate ELSE rec.exchange_rate,
    estimated_gdp |->
      IF rec.estimated_gdp = NullNum THEN old.estimated_gdp ELSE rec.estimated_gdp,
    flag_url |-> rec.flag_url,
    last_refreshed_at |-> date ]

\* one updateOne { filter: {name}, update: {$set: ...}, upsert: true }
MongoDoc(old, rec, date, strip) ==
  [ name |-> rec.name,
    capital |-> rec.capital,
    region |-> rec.region,
    population |-> rec.population,
    currency_code |-> SetString(old.currency_code, rec.currency_code, strip),
    exchange_rate |-> rec.exchange_rate,
    estimated_gdp |-> rec.estimated_gdp,
    flag_url |-> rec.flag_url,
    last_refreshed_at |-> date ]

\* the fields of a document that does not exist yet
NoDoc ==
  [currency_code |-> NULL, exchange_rate |-> NullNum, estimated_gdp |-> NullNum]

MongoFilterNone(coll, name) == {}

\* filter: { name: name }
MongoFilter(coll, name) == { d \in coll : d.name = name }

UpdateOne(coll, rec, date, strip) ==
  LET hit == MongoFilter(coll, rec.name)
  IN  IF hit = {} THEN coll \cup { MongoDoc(NoDoc, rec, date, strip) }
      ELSE LET d == CHOOSE d \in hit : TRUE
           IN  (coll \ {d}) \cup { MongoDoc(d, rec, date, strip) }

\* Country.bulkWrite(operations, { ordered: false }): the operations in
\* `applied` take effect (all of them unless the call fails)
RECURSIVE BulkWrite(_, _, _, _, _)
BulkWrite(coll, operations, applied, strip, k) ==
  IF (coll = {} /\ applied = {}) \/ k > Len(operations) THEN coll
  ELSE BulkWrite(
         IF k \in applied
         THEN UpdateOne(coll, operations[k].rec, operations[k].date, strip)
         ELSE coll,
         operations, applied, strip, k + 1)

(***************************************************************************)
(* MySQL variant: the countries table.                                     *)
(***************************************************************************)
\* n/d written to a DECIMAL(30,2) column: hundredths, rounded half up
Decimal2(x) ==
  IF x = NullNum THEN NullNum
  ELSE Num((2 * 100 * x[1] + x[2]) \div (2 * x[2]), 100)

\* a bound parameter: undefined is sent as NULL
SqlString(v) == IF v = UNDEFINED THEN NULL ELSE v

\* the UNIQUE key on name, under the case-insensitive default collation of
\* utf8mb4
DuplicateKey(table, name) == { r \in table : LOWER(r.name) = LOWER(name) }

\* INSERT INTO countries ... ON DUPLICATE KEY UPDATE ...: the row the
\* statement leaves in `table` (an update keeps the stored name)
InsertOrUpdate(table, rec, timestamp) ==
  LET dup == DuplicateKey(table, rec.name)
  IN  [ name |-> IF dup = {} THEN rec.name ELSE (CHOOSE r \in dup : TRUE).name,
        capital |-> rec.capital,
        region |-> rec.region,
        population |-> rec.population,
        currency_code |-> SqlString(rec.currency_code),
        exchange_rate |-> rec.exchange_rate,
        estimated_gdp |-> Decimal2(rec.estimated_gdp),
        flag_url |-> rec.flag_url,
        last_refreshed_at |-> timestamp ]

\* a commit that keeps only the rows of the transaction
OverlayReplacesTable(table, written) == written

\* `table` with the rows `written` put over the rows of the same key
Overlay(table, written) ==
  { r \in table : DuplicateKey(written, r.name) = {} } \cup written

(***************************************************************************)
(* Summary renderer inputs and output.                                     *)
(***************************************************************************)
TopLimit == 5

\* the injective sequences over the set S
Orderings(S) ==
  { s \in [1..Cardinality(S) -> S] : \A i, j \in DOMAIN s : i # j => s[i] # s[j] }

\* ORDER BY estimated_gdp DESC LIMIT 5 over the rows `ranked`: every result
\* the store may return (the order among equal values is the store's)
SortDescLimit(ranked) ==
  { SubSeq(s, 1, IF Len(s) < TopLimit THEN Len(s) ELSE TopLimit) :
      s \in { o \in Orderings(ranked) :
                \A i \in 1..(Len(o) - 1) :
                   NumLeq(o[i + 1].estimated_gdp, o[i].estimated_gdp) } }

\* Intl.NumberFormat(..., maximumFractionDigits: 0).format(x): to the
\* nearest integer, halves up
FormatCurrency(x) == (2 * x[1] + x[2]) \div (2 * x[2])

\* the lines printed by the loop of generateSummaryImage
RECURSIVE TopLines(_, _)
TopLines(topCountries, k) ==
  IF k > Len(topCountries) \/ k > TopLimit THEN <<>>
  ELSE << [rank |-> k, name |-> topCountries[k].name,
           gdp |-> FormatCurrency(topCountries[k].estimated_gdp)] >>
       \o TopLines(topCountries, k + 1)

\* the finished cache/summary.png
SummaryImage(totalCountries, topCountries, timestamp) ==
  [ total |-> totalCountries, top |-> TopLines(topCountries, 1),
    updated |-> timestamp ]

(***************************************************************************)
(* State.                                                                  *)
(***************************************************************************)
VARIABLES
  variant,         \* "mongo" | "mysql": which server.js runs
  upstream,        \* what the two sources can answer with: country lists
                   \* and rate tables
  stripUndefined,  \* mongo build: the ODM drops undefined $set keys
  countries,       \* the countries collection / table: a set of rows
  metadata,        \* Metadata collection / refresh_metadata table: <= 1 row
  image,           \* cache/summary.png: <<>> (no file) or <<content>>
  clock,           \* wall clock: each request arrives one tick after the last
  req,             \* per request handler: its position and locals
  resp,            \* per request handler: the response sent, if any
  tx,              \* mysql: rows and metadata written inside the open transaction
  renders,         \* mongo: generateSummaryImage calls still running
  pre,             \* history: countries and metadata when the request arrived
  lastOk,          \* history: fetched list and countries of the last successful
                   \* refresh, while nothing else has touched the store since
  refreshes,       \* refresh requests received
  okMeta           \* history: the metadata row written by the last refresh
                   \* that answered 200; {} while there is none

vars ==
  << variant, upstream, stripUndefined, countries, metadata, image, clock, req,
     resp, tx, renders, pre, lastOk, refreshes, okMeta >>

\* the refresh handler invocation of the one-request-at-a-time specification
Handlers == {"h1"}

\* the refresh handler invocations that may overlap
Overlapping == {"h1", "h2"}

\* an invocation of one of the other routes
Clients == {"c1"}

Slots == Handlers \cup Overlapping \cup Clients

NoDate == <<>>
Date(t) == <<t>>

NoRates == [c \in {} |-> 0]
NoResp == [status |-> 0]
NoTx == [open |-> FALSE, rows |-> {}, metadata |-> {}]
NoSnapshot == [taken |-> FALSE]

Idle ==
  [ pc |-> "idle", countriesData |-> <<>>, exchangeRates |-> NoRates, i |-> 0,
    totalCountries |-> 0, now |-> 0, topCountries |-> <<>>, metaRow |-> {},
    failed |-> "none", wrote |-> {},
    ops |-> <<>>, pending |-> {}, inserting |-> {}, writeErrors |-> FALSE ]

\* the server after start-up, in front of sources that answer with one of
\* `lists` and one of `rates`
Start(lists, rates) ==
  /\ variant \in {"mongo", "mysql"}
  /\ upstream = [lists |-> lists, rates |-> rates]
  /\ stripUndefined \in (IF variant = "mongo" THEN BOOLEAN ELSE {FALSE})
  /\ countries = {}
  \* initDatabase inserts the one refresh_metadata row; the Metadata
  \* collection starts empty
  /\ metadata = IF variant = "mysql"
                THEN { [last_refreshed_at |-> NoDate, total_countries |-> 0] }
                ELSE {}
  /\ image = <<>>
  /\ clock = 0
  /\ req = [p \in Slots |-> Idle]
  /\ resp = [p \in Slots |-> NoResp]
  /\ tx = [p \in Slots |-> NoTx]
  /\ renders = {}
  /\ pre = [p \in Slots |-> NoSnapshot]
  /\ lastOk = NoSnapshot
  /\ refreshes = 0
  /\ okMeta = {}

Init == Start(Payloads, RateTables)

(***************************************************************************)
(* Responses.                                                              *)
(***************************************************************************)
CountriesUnavailable ==
  [ status |-> 503, error |-> "External data source unavailable",
    details |-> "Could not fetch data from restcountries.com" ]

RatesUnavailableSameDetails == CountriesUnavailable

RatesUnavailable ==
  [ status |-> 503, error |-> "External data source unavailable",
    details |-> "Could not fetch data from open.er-api.com" ]

\* res.status(500).json(...): the mongo one adds details: error.message
InternalError ==
  IF variant = "mongo"
  THEN [ status |-> 500, error |-> "Internal server error",
         details |-> "error.message" ]
  ELSE [ status |-> 500, error |-> "Internal server error" ]

Success(totalCountries, lastRefreshedAt) ==
  [ status |-> 200, message |-> "Countries data refreshed successfully",
    total_countries |-> totalCountries, last_refreshed_at |-> lastRefreshedAt ]

(***************************************************************************)
(* Steps shared by both handlers.                                          *)
(***************************************************************************)
Snapshot ==
  [ taken |-> TRUE, countries |-> countries, metadata |-> metadata,
    clock |-> clock ]

\* the handler ends with response r
Finish(p, r, why) ==
  /\ req' = [req EXCEPT ![p].pc = "done", ![p].failed = why]
  /\ resp' = [resp EXCEPT ![p] = r]

\* POST /countries/refresh arrives
PostRefresh(p) ==
  /\ req[p].pc = "idle"
  /\ refreshes < MaxRefreshes
  /\ refreshes' = refreshes + 1
  /\ req' = [req EXCEPT ![p].pc = IF variant = "mysql" THEN "getConnection"
                                  ELSE "fetchCountries"]
  /\ pre' = [pre EXCEPT ![p] = Snapshot]
  /\ clock' = clock + 1
  /\ UNCHANGED << variant, upstream, okMeta, stripUndefined, countries,
                  metadata, image, resp, tx, renders, lastOk >>

\* axios.get(restcountries) resolves
FetchCountries(p) ==
  /\ req[p].pc = "fetchCountries"
  /\ \E data \in upstream.lists :
       req' = [req EXCEPT ![p].pc = "fetchRates", ![p].countriesData = data]
  /\ UNCHANGED << variant, upstream, okMeta, stripUndefined, countries,
                  metadata, image, clock, resp, tx, renders, pre, lastOk,
                  refreshes >>

\* axios.get(restcountries) rejects or times out
FetchCountriesError(p) ==
  /\ req[p].pc = "fetchCountries"
  /\ Finish(p, CountriesUnavailable, "countries")
  /\ lastOk' = NoSnapshot
  /\ UNCHANGED << variant, upstream, okMeta, stripUndefined, countries,
                  metadata, image, clock, tx, renders, pre, refreshes >>

\* axios.get(open.er-api) resolves
FetchRates(p) ==
  /\ req[p].pc = "fetchRates"
  /\ \E rates \in upstream.rates :
       req' = [req EXCEPT ![p].pc = IF variant = "mysql" THEN "beginTransaction"
                                    ELSE "bulkWrite",
                          ![p].exchangeRates = rates,
                          ![p].i = 0]
  /\ UNCHANGED << variant, upstream, okMeta, stripUndefined, countries,
                  metadata, image, clock, resp, tx, renders, pre, lastOk,
                  refreshes >>

\* a handler that touches the metadata before it fetches
FetchRatesErrorAfterWrite(p) ==
  /\ req[p].pc = "fetchRates"
  /\ Finish(p, RatesUnavailable, "rates")
  /\ metadata' = {}
  /\ lastOk' = NoSnapshot
  /\ UNCHANGED << variant, upstream, okMeta, stripUndefined, countries, image,
                  clock, tx, renders, pre, refreshes >>

\* axios.get(open.er-api) rejects or times out
FetchRatesError(p) ==
  /\ req[p].pc = "fetchRates"
  /\ Finish(p, RatesUnavailable, "rates")
  /\ lastOk' = NoSnapshot
  /\ UNCHANGED << variant, upstream, okMeta, stripUndefined, countries,
                  metadata, image, clock, tx, renders, pre, refreshes >>

\* the response has gone out; the handler is free for the next request
Return(p) ==
  /\ req[p].pc \in {"done", "rejected"}
  /\ req' = [req EXCEPT ![p] = Idle]
  /\ resp' = [resp EXCEPT ![p] = NoResp]
  /\ pre' = [pre EXCEPT ![p] = NoSnapshot]
  /\ UNCHANGED << variant, upstream, okMeta, stripUndefined, countries,
                  metadata, image, clock, tx, renders, lastOk, refreshes >>

(***************************************************************************)
(* MongoDB handler, after the fetches.                                     *)
(***************************************************************************)
\* countriesData.slice(i, i + batchSize), as indexes of countriesData
BatchIndexes(countriesData, i) ==
  { k \in 1..Len(countriesData) : i < k /\ k <= i + batchSize }

\* the countries of the batch for which Math.random() is called: the ones
\* with a currency code that has a rate
Draws(countriesData, exchangeRates, i) ==
  { k \in BatchIndexes(countriesData, i) :
      /\ HasCurrencies(countriesData[k])
      /\ RateFound(FirstCode(countriesData[k]), exchangeRates) }

\* the operations array built from one batch
Operations(countriesData, exchangeRates, i, multiplier, date) ==
  LET idx == BatchIndexes(countriesData, i)
  IN  [ k \in 1..Cardinality(idx) |->
          [ rec |-> Reconcile(countriesData[i + k], exchangeRates,
                              IF i + k \in DOMAIN multiplier
                              THEN multiplier[i + k] ELSE MultLow),
            date |-> date ] ]

\* the operations of an unordered bulkWrite of n that can have been applied
\* when it rejects: any of them; the model takes the runs of consecutive ones
PartialWrites(n) ==
  { { k \in 1..n : a < k /\ k <= b } : a \in {0, n \div 2}, b \in 0..n }

\* one turn of the batch loop: build the operations, await bulkWrite
MongoBulkWrite(p) ==
  /\ variant = "mongo"
  /\ req[p].pc = "bulkWrite"
  /\ req[p].i < Len(req[p].countriesData)
  /\ \E multiplier \in [Draws(req[p].countriesData, req[p].exchangeRates,
                               req[p].i) -> Multipliers] :
       LET ops == Operations(req[p].countriesData, req[p].exchangeRates,
                             req[p].i, multiplier, clock)
       IN  countries' = BulkWrite(countries, ops, DOMAIN ops, stripUndefined, 1)
  /\ req' = [req EXCEPT ![p].i = req[p].i + batchSize]
  /\ UNCHANGED << variant, upstream, okMeta, stripUndefined, metadata, image,
                  clock, resp, tx, renders, pre, lastOk, refreshes >>

\* a bulkWrite whose failure takes back what the refresh wrote before
MongoBulkWriteErrorRollsBack(p) ==
  /\ variant = "mongo"
  /\ req[p].pc = "bulkWrite"
  /\ req[p].i < Len(req[p].countriesData)
  /\ countries' = pre[p].countries
  /\ Finish(p, InternalError, "store")
  /\ lastOk' = NoSnapshot
  /\ UNCHANGED << variant, upstream, okMeta, stripUndefined, metadata, image,
                  clock, tx, renders, pre, refreshes >>

\* a batch loop that swallows the failure of bulkWrite and goes on
MongoBulkWriteErrorSwallowed(p) ==
  /\ variant = "mongo"
  /\ req[p].pc = "bulkWrite"
  /\ req[p].i < Len(req[p].countriesData)
  /\ req' = [req EXCEPT ![p].i = req[p].i + batchSize]
  /\ UNCHANGED << variant, upstream, okMeta, stripUndefined, countries,
                  metadata, image, clock, resp, tx, renders, pre, lastOk,
                  refreshes >>

\* bulkWrite rejects: some of the unordered operations may have been applied
MongoBulkWriteError(p) ==
  /\ variant = "mongo"
  /\ req[p].pc = "bulkWrite"
  /\ req[p].i < Len(req[p].countriesData)
  /\ \E multiplier \in [Draws(req[p].countriesData, req[p].exchangeRates,
                               req[p].i) -> Multipliers] :
       LET ops == Operations(req[p].countriesData, req[p].exchangeRates,
                             req[p].i, multiplier, clock)
       IN  \E applied \in PartialWrites(Len(ops)) :
             countries' = BulkWrite(countries, ops, applied, stripUndefined, 1)
  /\ Finish(p, InternalError, "store")
  /\ lastOk' = NoSnapshot
  /\ UNCHANGED << variant, upstream, okMeta, stripUndefined, metadata, image,
                  clock, tx, renders, pre, refreshes >>

\* the loop is over: const totalCountries = await Country.countDocuments();
\* const now = new Date()
MongoCountDocuments(p) ==
  /\ variant = "mongo"
  /\ req[p].pc = "bulkWrite"
  /\ req[p].i >= Len(req[p].countriesData)
  /\ req' = [req EXCEPT ![p].pc = "updateMetadata",
                        ![p].totalCountries = Cardinality(countries),
                        ![p].now = clock]
  /\ UNCHANGED << variant, upstream, okMeta, stripUndefined, countries,
                  metadata, image, clock, resp, tx, renders, pre, lastOk,
                  refreshes >>

\* a total taken from the fetched list instead of the collection
MongoMetadataDocFetchedCount(p) ==
  { [ last_refreshed_at |-> Date(req[p].now),
      total_countries |-> Len(req[p].countriesData) ] }

\* Metadata.findByIdAndUpdate("global", {...}, { upsert: true })
MongoMetadataDoc(p) ==
  { [ last_refreshed_at |-> Date(req[p].now),
      total_countries |-> req[p].totalCountries ] }

MongoUpdateMetadata(p) ==
  /\ variant = "mongo"
  /\ req[p].pc = "updateMetadata"
  /\ metadata' = MongoMetadataDoc(p)
  /\ req' = [req EXCEPT ![p].pc = "findTop", ![p].wrote = MongoMetadataDoc(p)]
  /\ UNCHANGED << variant, upstream, okMeta, stripUndefined, countries, image,
                  clock, resp, tx, renders, pre, lastOk, refreshes >>

\* Country.find({ estimated_gdp: { $ne: null, $gt: 0 } })
MongoRanked(coll) ==
  { d \in coll : d.estimated_gdp # NullNum /\ NumLess(Zero, d.estimated_gdp) }

\* ... .sort({ estimated_gdp: -1 }).limit(5).lean()
MongoFindTop(p) ==
  /\ variant = "mongo"
  /\ req[p].pc = "findTop"
  /\ \E top \in SortDescLimit(MongoRanked(countries)) :
       req' = [req EXCEPT ![p].pc = "respond", ![p].topCountries = top]
  /\ UNCHANGED << variant, upstream, okMeta, stripUndefined, countries,
                  metadata, image, clock, resp, tx, renders, pre, lastOk,
                  refreshes >>

\* countDocuments, findByIdAndUpdate or find rejects: the outer catch
MongoQueryError(p) ==
  /\ variant = "mongo"
  /\ \/ req[p].pc \in {"updateMetadata", "findTop"}
     \/ req[p].pc = "bulkWrite" /\ req[p].i >= Len(req[p].countriesData)
  /\ Finish(p, InternalError, "store")
  /\ lastOk' = NoSnapshot
  /\ UNCHANGED << variant, upstream, okMeta, stripUndefined, countries,
                  metadata, image, clock, tx, renders, pre, refreshes >>

\* generateSummaryImage(...) is called and not awaited, then res.json(...).
\* The call runs to its first await: with jimp missing it returns at once,
\* otherwise the rest of it runs after the response.
RenderCall(p) ==
  [ totalCountries |-> req[p].totalCountries,
    topCountries |-> req[p].topCountries,
    timestamp |-> req[p].now ]

MongoRespond(p) ==
  /\ variant = "mongo"
  /\ req[p].pc = "respond"
  /\ \/ renders' = renders \cup { RenderCall(p) }
     \/ renders' = renders
  /\ Finish(p, Success(req[p].totalCountries, Date(req[p].now)), "none")
  /\ lastOk' = [ taken |-> TRUE, countriesData |-> req[p].countriesData,
                 countries |-> countries ]
  /\ okMeta' = req[p].wrote
  /\ UNCHANGED << variant, upstream, stripUndefined, countries, metadata,
                  image, clock, tx, pre, refreshes >>

\* the detached generateSummaryImage reaches image.writeAsync and it resolves
MongoRenderWrite ==
  /\ \E r \in renders :
       /\ image' = << SummaryImage(r.totalCountries, r.topCountries, r.timestamp) >>
       /\ renders' = renders \ {r}
  /\ UNCHANGED << variant, upstream, okMeta, stripUndefined, countries,
                  metadata, clock, req, resp, tx, pre, lastOk, refreshes >>

\* a renderer that removes the file when it fails
MongoRenderErrorRemovesFile ==
  /\ \E r \in renders : renders' = renders \ {r}
  /\ image' = <<>>
  /\ UNCHANGED << variant, upstream, okMeta, stripUndefined, countries,
                  metadata, clock, req, resp, tx, pre, lastOk, refreshes >>

\* loadFont, mkdir or writeAsync rejects: caught and logged inside
MongoRenderError ==
  /\ \E r \in renders : renders' = renders \ {r}
  /\ UNCHANGED << variant, upstream, okMeta, stripUndefined, countries,
                  metadata, image, clock, req, resp, tx, pre, lastOk,
                  refreshes >>

(***************************************************************************)
(* MySQL handler.                                                          *)
(***************************************************************************)
\* const connection = await pool.getConnection(), before the try
MysqlGetConnection(p) ==
  /\ variant = "mysql"
  /\ req[p].pc = "getConnection"
  /\ req' = [req EXCEPT ![p].pc = "fetchCountries"]
  /\ UNCHANGED << variant, upstream, okMeta, stripUndefined, countries,
                  metadata, image, clock, resp, tx, renders, pre, lastOk,
                  refreshes >>

\* getConnection rejects: the handler's promise rejects, nothing is sent
MysqlGetConnectionError(p) ==
  /\ variant = "mysql"
  /\ req[p].pc = "getConnection"
  /\ req' = [req EXCEPT ![p].pc = "rejected", ![p].failed = "connection"]
  /\ lastOk' = NoSnapshot
  /\ UNCHANGED << variant, upstream, okMeta, stripUndefined, countries,
                  metadata, image, clock, resp, tx, renders, pre, refreshes >>

\* await connection.beginTransaction()
MysqlBeginTransaction(p) ==
  /\ variant = "mysql"
  /\ req[p].pc = "beginTransaction"
  /\ tx' = [tx EXCEPT ![p] = [open |-> TRUE, rows |-> {}, metadata |-> {}]]
  /\ req' = [req EXCEPT ![p].pc = "upsert", ![p].i = 0]
  /\ UNCHANGED << variant, upstream, okMeta, stripUndefined, countries,
                  metadata, image, clock, resp, renders, pre, lastOk,
                  refreshes >>

\* what the connection reads: the committed rows under its own writes
View(p) == Overlay(countries, tx[p].rows)

\* the rows and the metadata row locked by the open transactions of the
\* other connections: a statement that needs one of them waits
LockedRows(p) == UNION { tx[q].rows : q \in Slots \ {p} }
MetadataLocked(p) == \E q \in Slots \ {p} : tx[q].metadata # {}

\* one turn of for (const country of countriesData): reconcile, then
\* await connection.query(INSERT ... ON DUPLICATE KEY UPDATE)
MysqlUpsert(p) ==
  /\ variant = "mysql"
  /\ req[p].pc = "upsert"
  /\ req[p].i < Len(req[p].countriesData)
  /\ DuplicateKey(LockedRows(p), req[p].countriesData[req[p].i + 1].name) = {}
  /\ \E randomMultiplier \in Multipliers :
       LET rec == Reconcile(req[p].countriesData[req[p].i + 1],
                            req[p].exchangeRates, randomMultiplier)
       IN  tx' = [tx EXCEPT ![p].rows =
                    Overlay(tx[p].rows, { InsertOrUpdate(View(p), rec, clock) })]
  /\ req' = [req EXCEPT ![p].i = req[p].i + 1]
  /\ UNCHANGED << variant, upstream, okMeta, stripUndefined, countries,
                  metadata, image, clock, resp, renders, pre, lastOk,
                  refreshes >>

\* SELECT COUNT(*) as total FROM countries, inside the transaction
MysqlSelectCount(p) ==
  /\ variant = "mysql"
  /\ req[p].pc = "upsert"
  /\ req[p].i >= Len(req[p].countriesData)
  /\ req' = [req EXCEPT ![p].pc = "updateMetadata",
                        ![p].totalCountries = Cardinality(View(p))]
  /\ UNCHANGED << variant, upstream, okMeta, stripUndefined, countries,
                  metadata, image, clock, resp, tx, renders, pre, lastOk,
                  refreshes >>

\* UPDATE refresh_metadata SET last_refreshed_at = CURRENT_TIMESTAMP,
\* total_countries = ? WHERE id = 1
MysqlMetadataRow(p) ==
  { [ last_refreshed_at |-> Date(clock),
      total_countries |-> req[p].totalCountries ] }

MysqlUpdateMetadata(p) ==
  /\ variant = "mysql"
  /\ req[p].pc = "updateMetadata"
  /\ ~MetadataLocked(p)
  /\ tx' = [tx EXCEPT ![p].metadata = MysqlMetadataRow(p)]
  /\ req' = [req EXCEPT ![p].pc = "commit", ![p].wrote = MysqlMetadataRow(p)]
  /\ UNCHANGED << variant, upstream, okMeta, stripUndefined, countries,
                  metadata, image, clock, resp, renders, pre, lastOk,
                  refreshes >>

\* await connection.commit()
MysqlCommit(p) ==
  /\ variant = "mysql"
  /\ req[p].pc = "commit"
  /\ countries' = View(p)
  /\ metadata' = IF tx[p].metadata = {} THEN metadata ELSE tx[p].metadata
  /\ tx' = [tx EXCEPT ![p] = NoTx]
  /\ req' = [req EXCEPT ![p].pc = "selectMetadata"]
  /\ UNCHANGED << variant, upstream, okMeta, stripUndefined, image, clock,
                  resp, renders, pre, lastOk, refreshes >>

\* SELECT * FROM refresh_metadata WHERE id = 1
MysqlSelectMetadata(p) ==
  /\ variant = "mysql"
  /\ req[p].pc = "selectMetadata"
  /\ req' = [req EXCEPT ![p].pc = "selectTop", ![p].metaRow = metadata]
  /\ UNCHANGED << variant, upstream, okMeta, stripUndefined, countries,
                  metadata, image, clock, resp, tx, renders, pre, lastOk,
                  refreshes >>

\* SELECT name, estimated_gdp FROM countries WHERE estimated_gdp IS NOT NULL
MysqlRanked(table) == { r \in table : r.estimated_gdp # NullNum }

\* ... ORDER BY estimated_gdp DESC LIMIT 5
MysqlSelectTop(p) ==
  /\ variant = "mysql"
  /\ req[p].pc = "selectTop"
  /\ \E top \in SortDescLimit(MysqlRanked(countries)) :
       req' = [req EXCEPT ![p].pc = "render", ![p].topCountries = top]
  /\ UNCHANGED << variant, upstream, okMeta, stripUndefined, countries,
                  metadata, image, clock, resp, tx, renders, pre, lastOk,
                  refreshes >>

\* metadata[0].last_refreshed_at
MetaRowDate(p) == (CHOOSE m \in req[p].metaRow : TRUE).last_refreshed_at

\* await generateSummaryImage(...) runs to the end and writes the file
MysqlRender(p) ==
  /\ variant = "mysql"
  /\ req[p].pc = "render"
  /\ image' = << SummaryImage(req[p].totalCountries, req[p].topCountries,
                              MetaRowDate(p)[1]) >>
  /\ req' = [req EXCEPT ![p].pc = "respond"]
  /\ UNCHANGED << variant, upstream, okMeta, stripUndefined, countries,
                  metadata, clock, resp, tx, renders, pre, lastOk, refreshes
                  >>

\* await generateSummaryImage(...) fails inside: caught there and logged
MysqlRenderError(p) ==
  /\ variant = "mysql"
  /\ req[p].pc = "render"
  /\ req' = [req EXCEPT ![p].pc = "respond"]
  /\ UNCHANGED << variant, upstream, okMeta, stripUndefined, countries,
                  metadata, image, clock, resp, tx, renders, pre, lastOk,
                  refreshes >>

\* res.json({ message, total_countries, last_refreshed_at })
MysqlRespond(p) ==
  /\ variant = "mysql"
  /\ req[p].pc = "respond"
  /\ Finish(p, Success(req[p].totalCountries, MetaRowDate(p)), "none")
  /\ lastOk' = [ taken |-> TRUE, countriesData |-> req[p].countriesData,
                 countries |-> countries ]
  /\ okMeta' = req[p].wrote
  /\ UNCHANGED << variant, upstream, stripUndefined, countries, metadata,
                  image, clock, tx, renders, pre, refreshes >>

\* a statement between beginTransaction and the top query rejects: the
\* outer catch
MysqlQueryError(p) ==
  /\ variant = "mysql"
  /\ req[p].pc \in { "beginTransaction", "upsert", "updateMetadata", "commit",
                     "selectMetadata", "selectTop" }
  /\ req' = [req EXCEPT ![p].pc = "rollback"]
  /\ UNCHANGED << variant, upstream, okMeta, stripUndefined, countries,
                  metadata, image, clock, resp, tx, renders, pre, lastOk,
                  refreshes >>

\* await connection.rollback(); res.status(500).json(...)
MysqlRollback(p) ==
  /\ variant = "mysql"
  /\ req[p].pc = "rollback"
  /\ tx' = [tx EXCEPT ![p] = NoTx]
  /\ Finish(p, InternalError, "store")
  /\ lastOk' = NoSnapshot
  /\ UNCHANGED << variant, upstream, okMeta, stripUndefined, countries,
                  metadata, image, clock, renders, pre, refreshes >>

\* connection.rollback() rejects inside the catch: nothing is sent; the
\* server drops the transaction with the connection
MysqlRollbackError(p) ==
  /\ variant = "mysql"
  /\ req[p].pc = "rollback"
  /\ tx' = [tx EXCEPT ![p] = NoTx]
  /\ req' = [req EXCEPT ![p].pc = "rejected", ![p].failed = "store"]
  /\ lastOk' = NoSnapshot
  /\ UNCHANGED << variant, upstream, okMeta, stripUndefined, countries,
                  metadata, image, clock, resp, renders, pre, refreshes >>

(***************************************************************************)
(* Specification: requests are served one at a time.                       *)
(***************************************************************************)
Refresh(p) ==
  \/ PostRefresh(p)
  \/ FetchCountries(p)
  \/ FetchCountriesError(p)
  \/ FetchRates(p)
  \/ FetchRatesError(p)
  \/ MongoBulkWrite(p)
  \/ MongoBulkWriteError(p)
  \/ MongoCountDocuments(p)
  \/ MongoUpdateMetadata(p)
  \/ MongoFindTop(p)
  \/ MongoQueryError(p)
  \/ MongoRespond(p)
  \/ MysqlGetConnection(p)
  \/ MysqlGetConnectionError(p)
  \/ MysqlBeginTransaction(p)
  \/ MysqlUpsert(p)
  \/ MysqlSelectCount(p)
  \/ MysqlUpdateMetadata(p)
  \/ MysqlCommit(p)
  \/ MysqlSelectMetadata(p)
  \/ MysqlSelectTop(p)
  \/ MysqlRender(p)
  \/ MysqlRenderError(p)
  \/ MysqlRespond(p)
  \/ MysqlQueryError(p)
  \/ MysqlRollback(p)
  \/ MysqlRollbackError(p)
  \/ Return(p)

Next ==
  \/ \E p \in Handlers : Refresh(p)
  \/ MongoRenderWrite
  \/ MongoRenderError

Spec == Init /\ [][Next]_vars

(***************************************************************************)
(* Properties.                                                             *)
(***************************************************************************)
Done(p) == req[p].pc = "done"
Succeeded(p) == Done(p) /\ resp[p].status = 200

\* the fetched countries of the request in handler p
Fetched(p) == { req[p].countriesData[k] : k \in DOMAIN req[p].countriesData }

\* the stored record a fetched name went to: the one of that very name, or
\* else the ones of that name in another letter case
StoredAs(table, name) ==
  IF \E r \in table : r.name = name
  THEN { r \in table : r.name = name }
  ELSE { r \in table : LOWER(r.name) = LOWER(name) }

\* C1: a refresh whose country fetch or rate fetch failed ends with 503 and
\* leaves the countries and the metadata as they were when it arrived; and no
\* refresh writes anything while it has not got both fetches
C1_FetchFailureNoSideEffects ==
  \A p \in Handlers :
    /\ (Done(p) /\ req[p].failed \in {"countries", "rates"}) =>
         /\ resp[p].status = 503
         /\ countries = pre[p].countries
         /\ metadata = pre[p].metadata
         /\ tx[p] = NoTx
    /\ req[p].pc \in {"getConnection", "fetchCountries", "fetchRates"} =>
         /\ countries = pre[p].countries
         /\ metadata = pre[p].metadata
         /\ tx[p] = NoTx

\* a rate fetch that failed over a store that held records and metadata
C1_Witness ==
  \E p \in Handlers :
    /\ Done(p) /\ req[p].failed = "rates"
    /\ pre[p].countries # {}
    /\ \E m \in pre[p].metadata : m.total_countries > 0

\* C2: the 503 names the source that failed, restcountries.com for the
\* country fetch and open.er-api.com for the rate fetch, and a store failure
\* gives neither but the 500
C2_ErrorNamesSource ==
  \A p \in Handlers :
    Done(p) =>
      /\ req[p].failed = "countries" <=>
           /\ resp[p].status = 503
           /\ resp[p].details = "Could not fetch data from restcountries.com"
      /\ req[p].failed = "rates" <=>
           /\ resp[p].status = 503
           /\ resp[p].details = "Could not fetch data from open.er-api.com"
      /\ req[p].failed = "store" <=> resp[p].status = 500

\* the country fetch delivered a list and the rate fetch failed
C2_Witness ==
  \E p \in Handlers :
    /\ Done(p) /\ req[p].failed = "rates"
    /\ req[p].countriesData # <<>>
    /\ resp[p].details = "Could not fetch data from open.er-api.com"

\* C3: when a refresh has answered 200, the metadata row holds the number of
\* rows of the countries store
C3_TotalIsRowCount ==
  \A p \in Handlers :
    Succeeded(p) =>
      /\ metadata # {}
      /\ \A m \in metadata : m.total_countries = Cardinality(countries)
      /\ resp[p].total_countries = Cardinality(countries)

\* a success whose store holds a record that was not in the fetched list
C3_Witness ==
  \E p \in Handlers :
    /\ Succeeded(p)
    /\ Cardinality(countries) > Len(req[p].countriesData)
    /\ Len(req[p].countriesData) > 0

\* C4: after a successful refresh the record of a fetched country with an
\* empty or missing currency list has estimated_gdp 0 (a number, not null),
\* no exchange_rate and no currency_code
C4_NoCurrencyRule ==
  \A p \in Handlers :
    Succeeded(p) =>
      \A c \in Fetched(p) :
        ("currencies" \notin DOMAIN c \/ c.currencies = <<>>) =>
          /\ StoredAs(countries, c.name) # {}
          /\ \A r \in StoredAs(countries, c.name) :
               /\ IsNum(r.estimated_gdp) /\ r.estimated_gdp[1] = 0
               /\ r.exchange_rate = NullNum
               /\ r.currency_code = NULL

\* such a country refreshed over a record that had a rate and a positive GDP
C4_Witness ==
  \E p \in Handlers :
    /\ Succeeded(p)
    /\ \E c \in Fetched(p) :
         /\ "currencies" \notin DOMAIN c \/ c.currencies = <<>>
         /\ \E o \in StoredAs(pre[p].countries, c.name) :
              /\ o.exchange_rate # NullNum
              /\ IsNum(o.estimated_gdp) /\ o.estimated_gdp[1] > 0

\* C5: after a successful refresh the record of a fetched country whose first
\* currency code is not in the fetched rate table has neither exchange_rate
\* nor estimated_gdp, whatever it held before
C5_UnresolvedRateRule ==
  \A p \in Handlers :
    Succeeded(p) =>
      \A c \in Fetched(p) :
        ( /\ "currencies" \in DOMAIN c /\ c.currencies # <<>>
          /\ "code" \in DOMAIN c.currencies[1]
          /\ c.currencies[1].code \notin DOMAIN req[p].exchangeRates ) =>
          /\ StoredAs(countries, c.name) # {}
          /\ \A r \in StoredAs(countries, c.name) :
               r.exchange_rate = NullNum /\ r.estimated_gdp = NullNum

\* such a country refreshed over a record that had a rate and a GDP
C5_Witness ==
  \E p \in Handlers :
    /\ Succeeded(p)
    /\ \E c \in Fetched(p) :
         /\ "currencies" \in DOMAIN c /\ c.currencies # <<>>
         /\ "code" \in DOMAIN c.currencies[1]
         /\ c.currencies[1].code \notin DOMAIN req[p].exchangeRates
         /\ \E o \in StoredAs(pre[p].countries, c.name) :
              o.exchange_rate # NullNum /\ o.estimated_gdp # NullNum

\* every row written so far, committed or inside an open transaction
AllRows == countries \cup UNION { tx[p].rows : p \in Handlers }

\* a + b on non-null numbers
NumAdd(a, b) == Num(a[1] * b[2] + b[1] * a[2], a[2] * b[2])

\* population * k / exchange_rate of a row with a rate
Scaled(r, k) == Num(r.population * k * r.exchange_rate[2], r.exchange_rate[1])

\* C6 as claimed: every stored row with an exchange_rate r and population p
\* has p*1000/r <= estimated_gdp <= p*2000/r
C6_GdpBoundsExact ==
  \A r \in AllRows :
    r.exchange_rate # NullNum =>
      /\ IsNum(r.estimated_gdp)
      /\ NumLeq(Scaled(r, 1000), r.estimated_gdp)
      /\ NumLeq(r.estimated_gdp, Scaled(r, 2000))

\* what one write to the estimated_gdp column can add or take away: nothing
\* in the document store, half a hundredth in the DECIMAL(30,2) column
ColumnRounding == IF variant = "mysql" THEN Num(1, 200) ELSE Zero

\* C6 amended: every stored row with an exchange_rate r and population p has
\* p*1000/r <= estimated_gdp <= p*2000/r up to the rounding of the column
C6_GdpBoundsRounded ==
  \A r \in AllRows :
    r.exchange_rate # NullNum =>
      /\ IsNum(r.estimated_gdp)
      /\ NumLeq(Scaled(r, 1000), NumAdd(r.estimated_gdp, ColumnRounding))
      /\ NumLeq(r.estimated_gdp, NumAdd(Scaled(r, 2000), ColumnRounding))

\* one refresh stored two rows with a rate whose GDP per head differ by almost
\* two: the two draws of the multiplier were different
C6_Witness ==
  \E p \in Handlers :
    /\ Succeeded(p)
    /\ \E a, b \in countries :
         /\ a.exchange_rate # NullNum /\ b.exchange_rate = a.exchange_rate
         /\ a.last_refreshed_at = clock /\ b.last_refreshed_at = clock
         /\ a.population > 0 /\ b.population > 0
         /\ a.estimated_gdp[2] = b.estimated_gdp[2]
         /\ 19 * a.estimated_gdp[1] * b.population
              < 10 * b.estimated_gdp[1] * a.population

\* C7: the store never holds two records whose names are equal up to letter
\* case
C7_NoCaseDuplicates ==
  \A a, b \in countries : LOWER(a.name) = LOWER(b.name) => a = b

\* the fields a refresh copies from the upstream entry
SameIdentity(a, b) ==
  /\ a.name = b.name
  /\ a.capital = b.capital
  /\ a.region = b.region
  /\ a.population = b.population
  /\ a.currency_code = b.currency_code
  /\ a.flag_url = b.flag_url

\* C8: a refresh about to answer 200, whose fetched list is the one of the
\* successful refresh just before it, has inserted no record and every record
\* has the name, capital, region, population, currency_code and flag_url it
\* had after that refresh
C8_IdempotentIdentity ==
  \A p \in Handlers :
    ( /\ req[p].pc = "respond"
      /\ lastOk.taken
      /\ lastOk.countriesData = req[p].countriesData ) =>
      /\ Cardinality(countries) = Cardinality(lastOk.countries)
      /\ \A r \in countries : \E o \in lastOk.countries : SameIdentity(r, o)

\* the same non-empty list fetched twice in a row, the second time with
\* another rate or multiplier for some record
C8_Witness ==
  \E p \in Handlers :
    /\ req[p].pc = "respond"
    /\ lastOk.taken
    /\ lastOk.countriesData = req[p].countriesData
    /\ req[p].countriesData # <<>>
    /\ \E r \in countries : \E o \in lastOk.countries :
         /\ SameIdentity(r, o)
         /\ r.estimated_gdp # o.estimated_gdp

\* C9: a refresh that has written the metadata answers 200
C9_OutcomeFixedByMetadata ==
  \A p \in Handlers :
    (Done(p) /\ metadata # pre[p].metadata) => resp[p].status = 200

\* C10: a handler that is inside the renderer has already sent its response
C10_RenderDetached ==
  \A p \in Handlers : req[p].pc = "render" => resp[p] # NoResp

\* the smaller of two naturals
Min(a, b) == IF a < b THEN a ELSE b

\* the list `top` is the Min(5, k) highest of the k rows of `table` that have
\* an estimated_gdp, highest first
IsTopRanking(top, table) ==
  LET ranked == { r \in table : r.estimated_gdp # NullNum }
      listed == { top[i] : i \in DOMAIN top }
  IN  /\ Len(top) = Min(TopLimit, Cardinality(ranked))
      /\ Cardinality(listed) = Len(top)
      /\ listed \subseteq ranked
      /\ \A i \in 1..(Len(top) - 1) :
           NumLeq(top[i + 1].estimated_gdp, top[i].estimated_gdp)
      /\ \A r \in ranked \ listed : \A t \in listed :
           NumLeq(r.estimated_gdp, t.estimated_gdp)

\* C13: the list a refresh hands to the renderer is the Min(5, k) records of
\* highest estimated_gdp among the k stored records whose estimated_gdp is
\* not null, in descending order
C13_TopRanking ==
  \A p \in Handlers :
    req[p].pc \in {"render", "respond"} =>
      IsTopRanking(req[p].topCountries, countries)

\* the fetched country has a currency whose rate the fetched table gives
RateAvailable(c, rates) ==
  /\ "currencies" \in DOMAIN c /\ c.currencies # <<>>
  /\ "code" \in DOMAIN c.currencies[1]
  /\ c.currencies[1].code \in DOMAIN rates

\* C17: after a successful refresh the record of every fetched country has
\* estimated_gdp 0 when the country has no currency, null when it has one
\* whose rate is not available, and a number above 0 otherwise
C17_ThreeWayGdp ==
  \A p \in Handlers :
    Succeeded(p) =>
      \A c \in Fetched(p) :
        /\ StoredAs(countries, c.name) # {}
        /\ \A r \in StoredAs(countries, c.name) :
             IF "currencies" \notin DOMAIN c \/ c.currencies = <<>>
             THEN IsNum(r.estimated_gdp) /\ r.estimated_gdp[1] = 0
             ELSE IF ~RateAvailable(c, req[p].exchangeRates)
             THEN r.estimated_gdp = NullNum
             ELSE IsNum(r.estimated_gdp) /\ r.estimated_gdp[1] > 0

\* the rows handler p reads: inside its transaction while it is open
Visible(p) == IF tx[p].open THEN View(p) ELSE countries

\* a record write of the refresh in handler p failed
WriteFailed(p) ==
  /\ req[p].failed = "store"
  /\ req[p].i < Len(req[p].countriesData)

\* C18: a refresh that has just written the metadata has written a record
\* for every fetched country and has not answered yet; a refresh that has
\* answered 200 has written the metadata; a refresh with a failed record
\* write wrote no metadata and the metadata is as it was before
C18_MetadataAfterPersist ==
  \A p \in Handlers :
    /\ req[p].wrote # {} => req[p].i >= Len(req[p].countriesData)
    /\ (req[p].wrote # {} /\ req[p].pc \in {"findTop", "commit"}) =>
         /\ resp[p] = NoResp
         /\ \A f \in Fetched(p) : \E r \in Visible(p) :
              LOWER(r.name) = LOWER(f.name) /\ r.last_refreshed_at = clock
    /\ Succeeded(p) => (req[p].wrote # {} /\ metadata = req[p].wrote)
    /\ WriteFailed(p) => (req[p].wrote = {} /\ metadata = pre[p].metadata)

\* a refresh of two countries that has just written the metadata, over the
\* metadata of an earlier refresh
C18_Witness ==
  \E p \in Handlers :
    /\ req[p].wrote # {} /\ req[p].pc \in {"findTop", "commit"}
    /\ Len(req[p].countriesData) = 2
    /\ pre[p].metadata # metadata \/ tx[p].metadata # {}
    /\ \E m \in pre[p].metadata : m.total_countries > 0

\* C20: in the MySQL variant nothing a refresh writes is visible while its
\* transaction is open, and a refresh that answered 500 leaves the countries
\* table and the refresh_metadata row as they were when it arrived
C20_AllOrNothing ==
  variant = "mysql" =>
    \A p \in Handlers :
      /\ tx[p].open =>
           (countries = pre[p].countries /\ metadata = pre[p].metadata)
      /\ (Done(p) /\ resp[p].status = 500) =>
           (countries = pre[p].countries /\ metadata = pre[p].metadata)

(***************************************************************************)
(* The other routes: GET /countries/:name, DELETE /countries/:name,        *)
(* GET /status, GET /countries/image.  Each is one store call (or one      *)
(* file-system call) and a response.                                       *)
(***************************************************************************)
\* the :name parameters tried
ClientNames == {"Testland", "testland", "Other"}

NotFound(op, name) ==
  [status |-> 404, op |-> op, name |-> name, body |-> <<>>]
Found(op, name, body) ==
  [status |-> 200, op |-> op, name |-> name, body |-> <<body>>]
RouteError(op, name) ==
  [status |-> 500, op |-> op, name |-> name, body |-> <<>>]

\* the route in slot c answers r
Answer(c, r) ==
  /\ req[c].pc = "idle"
  /\ req' = [req EXCEPT ![c].pc = "done"]
  /\ resp' = [resp EXCEPT ![c] = r]
  /\ pre' = [pre EXCEPT ![c] = Snapshot]

\* { name: new RegExp(`^${name}$`, "i") } / WHERE LOWER(name) = LOWER(?)
Matching(coll, name) == { d \in coll : LOWER(d.name) = LOWER(name) }

\* GET /countries/:name: findOne / countries[0] is one of the matching rows
GetCountry(c, name) ==
  /\ \/ /\ Matching(countries, name) = {}
        /\ Answer(c, NotFound("lookup", name))
     \/ \E d \in Matching(countries, name) : Answer(c, Found("lookup", name, d))
  /\ UNCHANGED << variant, upstream, okMeta, stripUndefined, countries,
                  metadata, image, clock, tx, renders, lastOk, refreshes >>

\* the query rejects
GetCountryError(c, name) ==
  /\ Answer(c, RouteError("lookup", name))
  /\ UNCHANGED << variant, upstream, okMeta, stripUndefined, countries,
                  metadata, image, clock, tx, renders, lastOk, refreshes >>

\* what a delete by name can leave of `coll`: deleteOne removes one matching
\* document, DELETE ... WHERE removes every matching row
Deleted(coll, name) ==
  IF variant = "mongo"
  THEN { coll \ {d} : d \in Matching(coll, name) }
  ELSE { coll \ Matching(coll, name) }

\* DELETE /countries/:name.  The SQL statement scans the table and waits for
\* the rows an open transaction has written.
DeleteCountry(c, name) ==
  /\ variant = "mysql" => \A p \in Slots : tx[p].rows = {}
  /\ \/ /\ Matching(countries, name) = {}
        /\ Answer(c, NotFound("delete", name))
        /\ UNCHANGED << countries, lastOk >>
     \/ /\ Matching(countries, name) # {}
        /\ countries' \in Deleted(countries, name)
        /\ Answer(c, [ status |-> 200, op |-> "delete", name |-> name,
                       body |-> <<>> ])
        /\ lastOk' = NoSnapshot
  /\ UNCHANGED << variant, upstream, okMeta, stripUndefined, metadata, image,
                  clock, tx, renders, refreshes >>

\* the delete rejects
DeleteCountryError(c, name) ==
  /\ Answer(c, RouteError("delete", name))
  /\ UNCHANGED << variant, upstream, okMeta, stripUndefined, countries,
                  metadata, image, clock, tx, renders, lastOk, refreshes >>

\* GET /status: the metadata row; the mongo route, finding no document,
\* answers countDocuments() and a null date
StatusBody ==
  IF metadata = {}
  THEN [total_countries |-> Cardinality(countries), last_refreshed_at |-> NoDate]
  ELSE CHOOSE m \in metadata : TRUE

GetStatus(c) ==
  /\ Answer(c, Found("status", "", StatusBody))
  /\ UNCHANGED << variant, upstream, okMeta, stripUndefined, countries,
                  metadata, image, clock, tx, renders, lastOk, refreshes >>

\* findById, countDocuments or the SELECT rejects
GetStatusError(c) ==
  /\ Answer(c, RouteError("status", ""))
  /\ UNCHANGED << variant, upstream, okMeta, stripUndefined, countries,
                  metadata, image, clock, tx, renders, lastOk, refreshes >>

\* GET /countries/image: fs.access(imagePath), then res.sendFile, else 404
GetImage(c) ==
  /\ \/ image = <<>> /\ Answer(c, NotFound("image", ""))
     \/ image # <<>> /\ Answer(c, Found("image", "", image[1]))
  /\ UNCHANGED << variant, upstream, okMeta, stripUndefined, countries,
                  metadata, image, clock, tx, renders, lastOk, refreshes >>

Route(c) ==
  \/ \E name \in ClientNames : GetCountry(c, name)
  \/ GetCountryError(c, "")
  \/ \E name \in ClientNames : DeleteCountry(c, name)
  \/ DeleteCountryError(c, "")
  \/ GetStatus(c)
  \/ GetStatusError(c)
  \/ GetImage(c)

(***************************************************************************)
(* Specification: refreshes one at a time, the other routes at any moment  *)
(* of a refresh.  A route's response is looked at before anything else     *)
(* happens.                                                                *)
(***************************************************************************)
\* the upstream entries of this specification
ApiSource ==
  { Testland @@ [currencies |-> <<>>],
    [name |-> "testland", currencies |-> <<[code |-> "TST"]>>],
    [name |-> "Other", capital |-> "Oth", population |-> 3] }

ApiRates == { [TST |-> 10] }

ApiPayloads ==
  { s \in Payloads : \A k \in DOMAIN s : s[k] \in ApiSource }

InitApi == Start(ApiPayloads, ApiRates)

NextApi ==
  \/ \E c \in Clients : Return(c)
  \/ /\ \A c \in Clients : req[c].pc = "idle"
     /\ \/ \E p \in Handlers : Refresh(p)
        \/ MongoRenderWrite
        \/ MongoRenderError
        \/ \E c \in Clients : Route(c)

SpecApi == InitApi /\ [][NextApi]_vars

(***************************************************************************)
(* Properties of the other routes.                                         *)
(***************************************************************************)
\* slot c holds the response of route op, sent in this very state
Observed(c, op) == req[c].pc = "done" /\ resp[c].op = op

\* C11: a lookup by name n that the store answered changes no state, answers
\* 404 exactly when no stored name equals n ignoring case, and otherwise
\* answers a stored record of that name; right after a successful refresh,
\* while the record it wrote under that name is in the store, the record
\* answered is that one
C11_Lookup ==
  \A c \in Clients :
    (Observed(c, "lookup") /\ resp[c].status # 500) =>
      /\ countries = pre[c].countries /\ metadata = pre[c].metadata
      /\ resp[c].status = 404 <=> Matching(countries, resp[c].name) = {}
      /\ resp[c].status = 200 =>
           resp[c].body[1] \in Matching(countries, resp[c].name)
      /\ \A h \in Handlers :
           ( /\ Succeeded(h)
             /\ \E d \in Matching(countries, resp[c].name) :
                  d.last_refreshed_at = clock ) =>
             /\ resp[c].status = 200
             /\ resp[c].body[1].last_refreshed_at = clock

\* C12: a delete by name n that the store answered removes one record whose
\* name equals n ignoring case and nothing else, or answers 404 and removes
\* nothing when there is none; after a delete that answered 200 no stored
\* name equals n ignoring case, so that a lookup of n answers 404
C12_Delete ==
  \A c \in Clients :
    (Observed(c, "delete") /\ resp[c].status # 500) =>
      /\ metadata = pre[c].metadata
      /\ resp[c].status = 404 <=> Matching(pre[c].countries, resp[c].name) = {}
      /\ resp[c].status = 404 => countries = pre[c].countries
      /\ resp[c].status = 200 =>
           /\ \E d \in Matching(pre[c].countries, resp[c].name) :
                countries = pre[c].countries \ {d}
           /\ Matching(countries, resp[c].name) = {}

\* a render completes in this step: the file becomes what that render drew
RenderCompletes ==
  \/ \E r \in renders :
       /\ renders' = renders \ {r}
       /\ image' = << SummaryImage(r.totalCountries, r.topCountries, r.timestamp) >>
  \/ \E p \in Handlers :
       /\ req[p].pc = "render" /\ req'[p].pc = "respond"
       /\ image' = << SummaryImage(req[p].totalCountries, req[p].topCountries,
                                   MetaRowDate(p)[1]) >>

\* C14: the file changes only when a render completes, and then to what that
\* render drew; the artifact read answers 404 while there is no file and the
\* file as it is otherwise
C14_ArtifactRead ==
  /\ [](\A c \in Clients :
          Observed(c, "image") =>
            IF image = <<>> THEN resp[c].status = 404
            ELSE resp[c].status = 200 /\ resp[c].body = image)
  /\ [][image' # image => RenderCompletes]_vars

\* an artifact read that answered the picture of the second refresh, drawn
\* over the picture of the first
C14_Witness ==
  \E c \in Clients :
    /\ Observed(c, "image") /\ resp[c].status = 200
    /\ resp[c].body[1].updated = MaxRefreshes
    /\ resp[c].body[1].total > 0
    /\ okMeta # {}

\* C15: with no refresh under way, a status read that the store answered
\* changes no state and reports the metadata written by the last refresh that
\* answered 200, and no date while no refresh has answered 200
C15_StatusRead ==
  \A c \in Clients :
    ( /\ Observed(c, "status") /\ resp[c].status = 200
      /\ \A h \in Handlers : req[h].pc \in {"idle", "done", "rejected"} ) =>
      /\ countries = pre[c].countries /\ metadata = pre[c].metadata
      /\ okMeta = {} => resp[c].body[1].last_refreshed_at = NoDate
      /\ okMeta # {} => resp[c].body[1] \in okMeta

(***************************************************************************)
(* Specification: the MongoDB handler in front of a country list that      *)
(* takes more than one batch.                                              *)
(***************************************************************************)
\* batchSize + 1 country names, in alphabetical order
ManyNames ==
  << "c01", "c02", "c03", "c04", "c05", "c06", "c07", "c08",
     "c09", "c10", "c11", "c12", "c13", "c14", "c15", "c16",
     "c17", "c18", "c19", "c20", "c21", "c22", "c23", "c24",
     "c25", "c26", "c27", "c28", "c29", "c30", "c31", "c32",
     "c33", "c34", "c35", "c36", "c37", "c38", "c39", "c40",
     "c41", "c42", "c43", "c44", "c45", "c46", "c47", "c48",
     "c49", "c50", "c51" >>

\* a list of batchSize + 1 countries without currencies
LongList ==
  [ k \in 1..(batchSize + 1) |-> [name |-> ManyNames[k], population |-> 1] ]

InitBatch == Start({LongList}, ApiRates) /\ variant = "mongo"

MongoRefresh(p) ==
  \/ PostRefresh(p)
  \/ FetchCountries(p)
  \/ FetchCountriesError(p)
  \/ FetchRates(p)
  \/ FetchRatesError(p)
  \/ MongoBulkWrite(p)
  \/ MongoBulkWriteError(p)
  \/ MongoCountDocuments(p)
  \/ MongoUpdateMetadata(p)
  \/ MongoFindTop(p)
  \/ MongoQueryError(p)
  \/ MongoRespond(p)
  \/ Return(p)

NextBatch ==
  \/ \E p \in Handlers : MongoRefresh(p)
  \/ MongoRenderWrite
  \/ MongoRenderError

SpecBatch == InitBatch /\ [][NextBatch]_vars

\* the records of `coll` that the refresh of handler p wrote for the fetched
\* countries at the indexes idx
Written(p, coll, idx) ==
  { k \in idx : \E d \in coll : /\ d.name = req[p].countriesData[k].name
                                /\ d.last_refreshed_at = clock }

\* C19: when the bulkWrite of the batch after the first i countries has
\* failed, every country of the batches before it has the record this refresh
\* wrote, no country of the batches after it has one, the metadata is as it
\* was before the refresh, and the answer is the 500 with nothing but the
\* error
C19_BatchFailure ==
  \A p \in Handlers :
    (Done(p) /\ WriteFailed(p)) =>
      /\ Written(p, countries, 1..req[p].i) = 1..req[p].i
      /\ Written(p, countries,
                 (req[p].i + batchSize + 1)..Len(req[p].countriesData)) = {}
      /\ req[p].wrote = {} /\ metadata = pre[p].metadata
      /\ resp[p] = [ status |-> 500, error |-> "Internal server error",
                     details |-> "error.message" ]

\* the second batch failed after the first one was applied; and the first
\* batch failed in front of a second one
C19_Witness ==
  \E p \in Handlers :
    /\ Done(p) /\ WriteFailed(p)
    /\ req[p].i = batchSize
    /\ Len(req[p].countriesData) > batchSize
    /\ Cardinality(countries) >= batchSize

(***************************************************************************)
(* Overlapping requests.  The server runs the operations of a bulkWrite    *)
(* one by one, and the operations of two requests interleave.  An upsert   *)
(* whose filter matches a document updates it in one step; one that        *)
(* matches none inserts, and the insert meets the unique index on name     *)
(* (schema, line 30).                                                      *)
(***************************************************************************)
\* a collection without a unique index on name
UniqueIndexNone(coll, name) == FALSE

\* name: { unique: true }: an insert of this name is a duplicate key
UniqueIndex(coll, name) == \E d \in coll : d.name = name

\* the batch is built and Country.bulkWrite is called
MongoSendBatch(p) ==
  /\ variant = "mongo"
  /\ req[p].pc = "bulkWrite"
  /\ req[p].i < Len(req[p].countriesData)
  /\ \E multiplier \in [Draws(req[p].countriesData, req[p].exchangeRates,
                               req[p].i) -> Multipliers] :
       LET ops == Operations(req[p].countriesData, req[p].exchangeRates,
                             req[p].i, multiplier, clock)
       IN  req' = [req EXCEPT ![p].pc = "bulkWriting", ![p].ops = ops,
                              ![p].pending = DOMAIN ops,
                              ![p].inserting = {},
                              ![p].writeErrors = FALSE]
  /\ UNCHANGED << variant, upstream, okMeta, stripUndefined, countries,
                  metadata, image, clock, resp, tx, renders, pre, lastOk,
                  refreshes >>

\* the server takes one operation: it updates the matching document, or
\* finds none and goes on to insert
MongoOpMatch(p) ==
  /\ variant = "mongo"
  /\ req[p].pc = "bulkWriting"
  /\ \E k \in req[p].pending :
       LET op == req[p].ops[k]
       IN  IF MongoFilter(countries, op.rec.name) # {}
           THEN /\ countries' = UpdateOne(countries, op.rec, op.date,
                                          stripUndefined)
                /\ req' = [req EXCEPT ![p].pending = req[p].pending \ {k}]
           ELSE /\ countries' = countries
                /\ req' = [req EXCEPT ![p].pending = req[p].pending \ {k},
                                      ![p].inserting = req[p].inserting \cup {k}]
  /\ UNCHANGED << variant, upstream, okMeta, stripUndefined, metadata, image,
                  clock, resp, tx, renders, pre, lastOk, refreshes >>

\* the insert of an upsert: it goes in, or it is a duplicate key because
\* another request has inserted the name meanwhile; the server then runs the
\* operation again as an update, or (older servers) reports the write error
MongoOpInsert(p) ==
  /\ variant = "mongo"
  /\ req[p].pc = "bulkWriting"
  /\ \E k \in req[p].inserting :
       LET op == req[p].ops[k]
       IN  \/ /\ ~UniqueIndex(countries, op.rec.name)
              /\ countries' =
                   countries \cup { MongoDoc(NoDoc, op.rec, op.date, stripUndefined) }
              /\ req' = [req EXCEPT ![p].inserting = req[p].inserting \ {k}]
           \/ /\ UniqueIndex(countries, op.rec.name)
              /\ countries' = UpdateOne(countries, op.rec, op.date,
                                        stripUndefined)
              /\ req' = [req EXCEPT ![p].inserting = req[p].inserting \ {k}]
           \/ /\ UniqueIndex(countries, op.rec.name)
              /\ countries' = countries
              /\ req' = [req EXCEPT ![p].inserting = req[p].inserting \ {k},
                                    ![p].writeErrors = TRUE]
  /\ UNCHANGED << variant, upstream, okMeta, stripUndefined, metadata, image,
                  clock, resp, tx, renders, pre, lastOk, refreshes >>

\* every operation has run without a write error: bulkWrite resolves
MongoBatchDone(p) ==
  /\ variant = "mongo"
  /\ req[p].pc = "bulkWriting"
  /\ req[p].pending = {} /\ req[p].inserting = {} /\ ~req[p].writeErrors
  /\ req' = [req EXCEPT ![p].pc = "bulkWrite", ![p].i = req[p].i + batchSize,
                        ![p].ops = <<>>]
  /\ UNCHANGED << variant, upstream, okMeta, stripUndefined, countries,
                  metadata, image, clock, resp, tx, renders, pre, lastOk,
                  refreshes >>

\* bulkWrite rejects: every operation has run and one reported a write
\* error, or the connection broke with operations still to run
MongoBatchError(p) ==
  /\ variant = "mongo"
  /\ req[p].pc = "bulkWriting"
  /\ \/ req[p].pending = {} /\ req[p].inserting = {} /\ req[p].writeErrors
     \/ req[p].pending # {} \/ req[p].inserting # {}
  /\ Finish(p, InternalError, "store")
  /\ lastOk' = NoSnapshot
  /\ UNCHANGED << variant, upstream, okMeta, stripUndefined, countries,
                  metadata, image, clock, tx, renders, pre, refreshes >>

\* the refresh handler with the bulkWrite taken operation by operation
RefreshByOperation(p) ==
  \/ PostRefresh(p)
  \/ FetchCountries(p)
  \/ FetchCountriesError(p)
  \/ FetchRates(p)
  \/ FetchRatesError(p)
  \/ MongoSendBatch(p)
  \/ MongoOpMatch(p)
  \/ MongoOpInsert(p)
  \/ MongoBatchDone(p)
  \/ MongoBatchError(p)
  \/ MongoCountDocuments(p)
  \/ MongoUpdateMetadata(p)
  \/ MongoFindTop(p)
  \/ MongoQueryError(p)
  \/ MongoRespond(p)
  \/ MysqlGetConnection(p)
  \/ MysqlGetConnectionError(p)
  \/ MysqlBeginTransaction(p)
  \/ MysqlUpsert(p)
  \/ MysqlSelectCount(p)
  \/ MysqlUpdateMetadata(p)
  \/ MysqlCommit(p)
  \/ MysqlSelectMetadata(p)
  \/ MysqlSelectTop(p)
  \/ MysqlRender(p)
  \/ MysqlRenderError(p)
  \/ MysqlRespond(p)
  \/ MysqlQueryError(p)
  \/ MysqlRollback(p)
  \/ MysqlRollbackError(p)
  \/ Return(p)

\* the upstream of this specification: every request fetches the same
\* country
ConcPayloads == { << Testland @@ [currencies |-> <<>>] >> }

InitConc == Start(ConcPayloads, ApiRates)

NextConc ==
  \/ \E p \in Overlapping : RefreshByOperation(p)
  \/ MongoRenderWrite
  \/ MongoRenderError
  \/ \E c \in Clients : DeleteCountry(c, "testland")
  \/ \E c \in Clients : Return(c)

SpecConc == InitConc /\ [][NextConc]_vars

\* C16: no two stored records have the same name
C16_UniqueNames ==
  \A a, b \in countries : a.name = b.name => a = b

\* two refreshes in flight together that upsert the same name: both found no
\* document and both are about to insert (MongoDB), or one waits for the row
\* the other has written in its transaction (MySQL)
C16_Witness ==
  \E p, q \in Overlapping :
    /\ p # q
    /\ \/ \E k \in req[p].inserting, l \in req[q].inserting :
            req[p].ops[k].rec.name = req[q].ops[l].rec.name
       \/ /\ req[q].pc = "upsert" /\ req[q].i < Len(req[q].countriesData)
          /\ DuplicateKey(tx[p].rows,
                          req[q].countriesData[req[q].i + 1].name) # {}

(***************************************************************************)
(* Properties of the refresh under Spec, continued.                        *)
(***************************************************************************)
\* C21: every stored record without a currency code has no exchange rate
\* and an estimated GDP of exactly 0, whether the fetched country had no
\* currency list, an empty one, or a first entry without a code
C21_AbsentCodeRule ==
  \A r \in AllRows :
    r.currency_code \in {NULL, UNDEFINED} =>
      (r.exchange_rate = NullNum /\ r.estimated_gdp = Zero)

(***************************************************************************)
(* Specification: refreshes one at a time while the wall clock advances    *)
(* between any two steps of a handler.  new Date() and CURRENT_TIMESTAMP   *)
(* read the clock at the step that evaluates them.                         *)
(***************************************************************************)
\* the upstream of this specification: one list of two countries
TimedPayloads ==
  { << Testland @@ [currencies |-> <<>>],
       [name |-> "Other", capital |-> "Oth", population |-> 3] >> }

InitTimed == Start(TimedPayloads, ApiRates)

\* time passes
Tick ==
  /\ clock < MaxClock
  /\ clock' = clock + 1
  /\ UNCHANGED << variant, upstream, okMeta, stripUndefined, countries,
                  metadata, image, req, resp, tx, renders, pre, lastOk,
                  refreshes >>

NextTimed ==
  \/ \E p \in Handlers : Refresh(p)
  \/ MongoRenderWrite
  \/ MongoRenderError
  \/ Tick

SpecTimed == InitTimed /\ [][NextTimed]_vars

\* the time at which the request in handler p arrived
StartTime(p) == pre[p].clock + 1

\* C22: after a successful refresh every record of a fetched country and
\* the metadata carry the time at which that refresh started
C22_StartTimeStamps ==
  \A p \in Handlers :
    Succeeded(p) =>
      /\ \A f \in Fetched(p) : \A r \in StoredAs(countries, f.name) :
           r.last_refreshed_at = StartTime(p)
      /\ \A m \in metadata : m.last_refreshed_at = Date(StartTime(p))

(***************************************************************************)
(* Specification: the file write of the renderer step by step.             *)
(* image.writeAsync(path) encodes the picture and hands it to              *)
(* fs.writeFile(path, buffer): the file at the well-known path is opened   *)
(* and truncated, then filled, then closed.  There is no temporary file    *)
(* and no rename.  The artifact read may fall between any two steps.       *)
(***************************************************************************)
\* the file after the open and the first bytes of picture c
FileSoFar(c) == [ total |-> c.total ]

\* the file after a write of picture c that ran over the longer write of
\* picture o: the bytes of c, then what is left of o
FileOver(c, o) == c @@ [ tail |-> o.updated ]

\* the calls of generateSummaryImage that have the file open
Writing == { r \in renders : "writing" \in DOMAIN r }

\* MongoDB: a detached generateSummaryImage opens the file
MongoWriteAsyncOpen ==
  /\ \E r \in renders \ Writing :
       /\ image' = << FileSoFar(SummaryImage(r.totalCountries, r.topCountries,
                                             r.timestamp)) >>
       /\ renders' = (renders \ {r}) \cup { r @@ [writing |-> TRUE] }
  /\ UNCHANGED << variant, upstream, okMeta, stripUndefined, countries,
                  metadata, clock, req, resp, tx, pre, lastOk, refreshes >>

\* MongoDB: the write of a detached generateSummaryImage ends
MongoWriteAsyncEnd ==
  /\ \E r \in Writing :
       LET c == SummaryImage(r.totalCountries, r.topCountries, r.timestamp)
       IN  /\ \/ image' = << c >>
              \/ \E o \in Writing \ {r} :
                   image' = << FileOver(c, SummaryImage(o.totalCountries,
                                                        o.topCountries,
                                                        o.timestamp)) >>
           /\ renders' = renders \ {r}
  /\ UNCHANGED << variant, upstream, okMeta, stripUndefined, countries,
                  metadata, clock, req, resp, tx, pre, lastOk, refreshes >>

\* MySQL: the awaited generateSummaryImage opens the file
MysqlWriteAsyncOpen(p) ==
  /\ variant = "mysql"
  /\ req[p].pc = "render"
  /\ image' = << FileSoFar(SummaryImage(req[p].totalCountries,
                                        req[p].topCountries,
                                        MetaRowDate(p)[1])) >>
  /\ req' = [req EXCEPT ![p].pc = "writeAsync"]
  /\ UNCHANGED << variant, upstream, okMeta, stripUndefined, countries,
                  metadata, clock, resp, tx, renders, pre, lastOk, refreshes
                  >>

\* MySQL: the write of the awaited generateSummaryImage ends
MysqlWriteAsyncEnd(p) ==
  /\ variant = "mysql"
  /\ req[p].pc = "writeAsync"
  /\ image' = << SummaryImage(req[p].totalCountries, req[p].topCountries,
                              MetaRowDate(p)[1]) >>
  /\ req' = [req EXCEPT ![p].pc = "respond"]
  /\ UNCHANGED << variant, upstream, okMeta, stripUndefined, countries,
                  metadata, clock, resp, tx, renders, pre, lastOk, refreshes
                  >>

RefreshWritingFile(p) ==
  \/ PostRefresh(p)
  \/ FetchCountries(p)
  \/ FetchCountriesError(p)
  \/ FetchRates(p)
  \/ FetchRatesError(p)
  \/ MongoBulkWrite(p)
  \/ MongoBulkWriteError(p)
  \/ MongoCountDocuments(p)
  \/ MongoUpdateMetadata(p)
  \/ MongoFindTop(p)
  \/ MongoQueryError(p)
  \/ MongoRespond(p)
  \/ MysqlGetConnection(p)
  \/ MysqlGetConnectionError(p)
  \/ MysqlBeginTransaction(p)
  \/ MysqlUpsert(p)
  \/ MysqlSelectCount(p)
  \/ MysqlUpdateMetadata(p)
  \/ MysqlCommit(p)
  \/ MysqlSelectMetadata(p)
  \/ MysqlSelectTop(p)
  \/ MysqlWriteAsyncOpen(p)
  \/ MysqlWriteAsyncEnd(p)
  \/ MysqlRenderError(p)
  \/ MysqlRespond(p)
  \/ MysqlQueryError(p)
  \/ MysqlRollback(p)
  \/ MysqlRollbackError(p)
  \/ Return(p)

InitFile == Start(ConcPayloads, ApiRates)

NextFile ==
  \/ \E c \in Clients : Return(c)
  \/ /\ \A c \in Clients : req[c].pc = "idle"
     /\ \/ \E p \in Handlers : RefreshWritingFile(p)
        \/ MongoWriteAsyncOpen
        \/ MongoWriteAsyncEnd
        \/ MongoRenderError
        \/ \E c \in Clients : GetImage(c)

SpecFile == InitFile /\ [][NextFile]_vars

\* file f is all of what one call of the renderer draws
CompletePicture(f) == DOMAIN f = {"total", "top", "updated"}

\* C23: the file at the well-known path is absent or the complete picture
\* of one render, and so is what an artifact read answers
C23_AtomicReplace ==
  /\ image # <<>> => CompletePicture(image[1])
  /\ \A c \in Clients :
       (Observed(c, "image") /\ resp[c].status = 200) =>
         CompletePicture(resp[c].body[1])

(***************************************************************************)
(* Properties of a refresh with deletes at any moment of it (SpecApi).     *)
(***************************************************************************)
\* C24: when a refresh has answered 200 and no record was deleted after the
\* answer, the total_countries of the metadata is the number of stored
\* records, whatever deletes ran while the refresh was under way
C24_TotalUnderDeletes ==
  \A p \in Handlers :
    (Succeeded(p) /\ lastOk.taken) =>
      \A m \in metadata : m.total_countries = Cardinality(countries)

(***************************************************************************)
(* Frame of a refresh (Spec).                                              *)
(***************************************************************************)
\* the name of stored record r is the name of a fetched country of the
\* request in handler p, letter case aside
NamedInPayload(p, r) ==
  \E k \in DOMAIN req[p].countriesData :
    LOWER(req[p].countriesData[k].name) = LOWER(r.name)

\* C25: from its arrival to its answer, whatever the answer, a refresh leaves
\* every record that was stored when it arrived in the store under its name,
\* and leaves it as it was unless a fetched country has its name, letter
\* case aside; the same holds for the rows seen inside its transaction
C25_RefreshFrame ==
  \A p \in Handlers :
    pre[p].taken =>
      \A r \in pre[p].countries :
        /\ \E s \in countries : s.name = r.name
        /\ \E s \in Visible(p) : s.name = r.name
        /\ ~NamedInPayload(p, r) => (r \in countries /\ r \in Visible(p))

\* a refresh that has answered 200 over two stored records: it changed the
\* one it fetched and the other one is as it was
C25_Witness ==
  \E p \in Handlers :
    /\ Succeeded(p)
    /\ \E r \in pre[p].countries : ~NamedInPayload(p, r) /\ r \in countries
    /\ \E r \in pre[p].countries : NamedInPayload(p, r) /\ r \notin countries

(***************************************************************************)
(* End of a refresh handler (Spec).                                        *)
(***************************************************************************)
\* the handler function of the request in slot p has run to its end, by
\* returning or by a rejection that nothing caught
Ended(p) == req[p].pc \in {"done", "rejected"}

\* C26: a refresh handler that has run to its end has sent one response:
\* 200, 503 or 500
C26_OneResponse ==
  \A p \in Handlers : Ended(p) => resp[p].status \in {200, 503, 500}

\* C27: a refresh that has answered 200 has written the metadata and the
\* metadata is what it wrote; a refresh that has answered 503 or 500 has
\* left the metadata as it was when the request arrived
C27_SuccessIffMetadata ==
  \A p \in Handlers :
    Done(p) =>
      /\ resp[p].status = 200 =>
           (req[p].wrote # {} /\ metadata = req[p].wrote)
      /\ resp[p].status \in {503, 500} => metadata = pre[p].metadata

(***************************************************************************)
(* Metadata under overlapping refreshes (SpecConc).                        *)
(***************************************************************************)
\* C28: every step that changes the metadata stores what one of the running
\* refreshes wrote, with the count that refresh took, and a timestamp that
\* is not before the one it replaces
C28_MonotoneMetadata ==
  [][ metadata' # metadata =>
        /\ \E p \in Overlapping :
             /\ metadata' = req'[p].wrote
             /\ \A n \in metadata' : n.total_countries = req[p].totalCountries
        /\ \A m \in metadata : \A n \in metadata' :
             m.last_refreshed_at # NoDate =>
               /\ n.last_refreshed_at # NoDate
               /\ n.last_refreshed_at[1] >= m.last_refreshed_at[1] ]_vars

====
